---------------------------- MODULE Spec2Model ----------------------------
(* naru-pub-proxy: a multi-tenant static-content gateway (src/src/main.rs).  *)
(* main accepts TCP connections and spawns one task per connection; each     *)
(* task serves HTTP/1 requests one after another through handle_request,     *)
(* which maps (host header, request path) to an object key, fetches the      *)
(* object and turns the outcome into a response.                             *)
(* Text is modelled as sequences of bytes (integers 0..255), as Rust strings *)
(* are UTF-8 byte sequences.                                                 *)
EXTENDS Integers, Sequences, FiniteSets, TLC

VARIABLES
    want,      \* want[c]: the requests client c will send on its connection
    stored,    \* the object the bucket returns when a fetch succeeds
    running,   \* the process (the accept loop of main) is alive
    pc,        \* pc[c]: where the task serving connection c stands
    sent,      \* sent[c]: requests client c has put on the wire so far
    nread,     \* nread[c]: requests the connection's dispatcher has read
    task,      \* task[c]: frame of the handle_request call in flight on c
    written,   \* written[c]: ids of the requests answered on c, in order
    connlog    \* connlog[c]: line the connection's task printed when it ended

vars == <<want, stored, running, pc, sent, nread, task, written, connlog>>

-----------------------------------------------------------------------------
(* Bounds of the model.                                                      *)
MaxConns == 2
MaxReqs == 2
MaxHostLen == 2
MaxPathLen == 3

(* Bytes the code names.                                                     *)
Slash == 47
Dot == 46
Percent == 37

IndexHtml == <<105, 110, 100, 101, 120, 46, 104, 116, 109, 108>>
NotFoundBody == <<78, 111, 116, 32, 70, 111, 117, 110, 100>>

-----------------------------------------------------------------------------
(* Helpers on byte strings.                                                  *)
Strings(alphabet, n) == UNION {[1..k -> alphabet] : k \in 0..n}

EndsWith(s, b) == Len(s) > 0 /\ s[Len(s)] = b

Contains(s, b) == \E i \in 1..Len(s) : s[i] = b

Drop(s, n) == SubSeq(s, n + 1, Len(s))

-----------------------------------------------------------------------------
(* handle_request, lines 86-91: the host header as text.                     *)
(* HeaderValue::to_str succeeds only on visible ASCII (and tab).             *)
IsVisibleAscii(b) == (b >= 32 /\ b < 127) \/ b = 9

HeaderToStr(h) ==
    IF h.present /\ \A i \in 1..Len(h.bytes) : IsVisibleAscii(h.bytes[i])
    THEN [ok |-> TRUE, str |-> h.bytes]
    ELSE [ok |-> FALSE, str |-> <<>>]

HostOf(h) == IF HeaderToStr(h).ok THEN HeaderToStr(h).str ELSE <<>>

(* lines 94-98: host.split('.').next().filter(non-empty).unwrap_or_default() *)
RECURSIVE SplitNext(_, _)
SplitNext(s, sep) ==
    IF s = <<>> \/ Head(s) = sep THEN <<>>
    ELSE <<Head(s)>> \o SplitNext(Tail(s), sep)

Subdomain(host) ==
    LET first == SplitNext(host, Dot)
    IN  IF first # <<>> THEN first ELSE <<>>

(* line 100: trim_start_matches('/') removes every leading '/'.              *)
TrimStartOnce(s, b) == IF s # <<>> /\ Head(s) = b THEN Tail(s) ELSE s

RECURSIVE TrimStartMatches(_, _)
TrimStartMatches(s, b) ==
    IF s # <<>> /\ Head(s) = b THEN TrimStartMatches(Tail(s), b) ELSE s

(* line 102: percent_decode_str. "%XX" with two hex digits becomes one byte; *)
(* any other '%' is passed through unchanged.                                *)
IsHex(b) == (b >= 48 /\ b <= 57) \/ (b >= 65 /\ b <= 70) \/ (b >= 97 /\ b <= 102)

HexVal(b) ==
    IF b >= 48 /\ b <= 57 THEN b - 48
    ELSE IF b >= 65 /\ b <= 70 THEN b - 55
    ELSE b - 87

RECURSIVE PercentDecode(_)
PercentDecode(s) ==
    IF s = <<>> THEN <<>>
    ELSE IF s[1] = Percent /\ Len(s) >= 3 /\ IsHex(s[2]) /\ IsHex(s[3])
         THEN <<16 * HexVal(s[2]) + HexVal(s[3])>> \o PercentDecode(Drop(s, 3))
         ELSE <<s[1]>> \o PercentDecode(Tail(s))

(* line 103: decode_utf8 succeeds iff the bytes are well-formed UTF-8.       *)
IsCont(b) == b >= 128 /\ b <= 191

RECURSIVE IsUtf8(_)
IsUtf8(b) ==
    IF b = <<>> THEN TRUE
    ELSE IF b[1] < 128 THEN IsUtf8(Tail(b))
    ELSE IF b[1] >= 194 /\ b[1] <= 223
         THEN Len(b) >= 2 /\ IsCont(b[2]) /\ IsUtf8(Drop(b, 2))
    ELSE IF b[1] >= 224 /\ b[1] <= 239
         THEN /\ Len(b) >= 3
              /\ IsCont(b[2]) /\ IsCont(b[3])
              /\ (b[1] = 224 => b[2] >= 160)
              /\ (b[1] = 237 => b[2] <= 159)
              /\ IsUtf8(Drop(b, 3))
    ELSE IF b[1] >= 240 /\ b[1] <= 244
         THEN /\ Len(b) >= 4
              /\ IsCont(b[2]) /\ IsCont(b[3]) /\ IsCont(b[4])
              /\ (b[1] = 240 => b[2] >= 144)
              /\ (b[1] = 244 => b[2] <= 143)
              /\ IsUtf8(Drop(b, 4))
    ELSE FALSE

(* lines 103-105: decode_utf8().unwrap_or_default()                          *)
DecodeLossy(bytes) == bytes

DecodeUtf8OrDefault(bytes) == IF IsUtf8(bytes) THEN bytes ELSE <<>>

DecodedPath(raw) == DecodeUtf8OrDefault(PercentDecode(TrimStartMatches(raw, Slash)))

(* lines 109-119: default document, directory index, extensionless path.     *)
NormalizePathSlashOnly(path) ==
    IF path = <<>> \/ path = IndexHtml THEN IndexHtml
    ELSE IF EndsWith(path, Slash) THEN path \o IndexHtml
    ELSE path

NormalizePath(path) ==
    IF path = <<>> \/ path = IndexHtml THEN IndexHtml
    ELSE IF EndsWith(path, Slash) \/ (~Contains(path, Dot) /\ path # <<>>)
         THEN IF EndsWith(path, Slash)
              THEN path \o IndexHtml
              ELSE path \o <<Slash>> \o IndexHtml
    ELSE path

(* lines 121-125: the object key.                                            *)
BuildKeyNoSeparator(subdomain, path) == subdomain \o path

BuildKey(subdomain, path) ==
    IF subdomain = <<>> THEN path ELSE subdomain \o <<Slash>> \o path

ResolveKey(req) ==
    BuildKey(Subdomain(HostOf(req.host)), NormalizePath(DecodedPath(req.path)))

-----------------------------------------------------------------------------
(* Responses.                                                                *)
NoHeaders == [h \in {} |-> ""]

NoResponse == [status |-> 0, headers |-> NoHeaders, body |-> <<>>]

(* lines 135-142: Ok(resp) arm. content_type.unwrap_or_default() is always   *)
(* put in the content-type header.                                           *)
OkResponseOmitEmpty(content_type, data) ==
    [status |-> 200,
     headers |-> IF content_type.present
                 THEN ("content-type" :> content_type.value)
                 ELSE NoHeaders,
     body |-> data]

OkResponse(content_type, data) ==
    [status |-> 200,
     headers |-> ("content-type" :>
                    (IF content_type.present THEN content_type.value ELSE "")),
     body |-> data]

(* lines 143-149: Err(err) arm.                                              *)
ErrResponseByKind(err) ==
    [status |-> IF err = "DispatchFailure" THEN 502 ELSE 404,
     headers |-> NoHeaders,
     body |-> NotFoundBody]

ErrResponse(err) ==
    [status |-> 404, headers |-> NoHeaders, body |-> NotFoundBody]

ErrLine(err) == <<"Error fetching from S3", err>>

ServeErrLine == "Error serving connection"

-----------------------------------------------------------------------------
(* Inputs.                                                                   *)
Absent == [present |-> FALSE, bytes |-> <<>>]

Header(bytes) == [present |-> TRUE, bytes |-> bytes]

HostAlphabet == {97, Dot, 195}

PathAlphabet == {Slash, 97, Dot, Percent}

ExtraHosts ==
    { <<97, 47>>,                                  \* "a/"
      <<97, 99, 109, 101, 46, 101, 120, 46, 99>> } \* "acme.ex.c"

ExtraPaths ==
    { <<47>> \o IndexHtml,                       \* "/index.html"
      <<47, 37, 50, 70>>,                        \* "/%2F"
      <<47, 97, 37, 50, 48, 97>>,                \* "/a%20a"
      <<47, 37, 50, 69>>,                        \* "/%2E"
      <<47, 37, 67, 51, 37, 65, 57>>,            \* "/%C3%A9"
      <<47, 47, 97, 98, 111, 117, 116>>,         \* "//about"
      <<47, 115, 46, 99, 115, 115>> }            \* "/s.css"

HostHeaders ==
    {Absent} \cup {Header(s) : s \in Strings(HostAlphabet, MaxHostLen) \cup ExtraHosts}

RawPaths ==
    {<<Slash>> \o s : s \in Strings(PathAlphabet, MaxPathLen)} \cup ExtraPaths

Requests == [host : HostHeaders, path : RawPaths]

SampleRequests ==
    << [host |-> Header(<<97, 46, 97>>), path |-> <<47, 97>>],
       [host |-> Absent,                 path |-> <<47, 97, 47>>],
       [host |-> Header(<<97>>),         path |-> <<47, 37, 97, 97>>] >>

NoContentType == [present |-> FALSE, value |-> ""]

Objects ==
    { [content_type |-> NoContentType, bytes |-> <<60, 104, 62>>],
      [content_type |-> [present |-> TRUE, value |-> "text/css"], bytes |-> <<>>] }

S3Errors == {"NoSuchKey", "AccessDenied", "DispatchFailure"}

Conns == DOMAIN want

-----------------------------------------------------------------------------
(* State of one handle_request call.                                         *)
NoTask ==
    [id |-> 0, req |-> [host |-> Absent, path |-> <<>>],
     host |-> <<>>, subdomain |-> <<>>, path |-> <<>>, key |-> <<>>,
     stalls |-> FALSE, fetch |-> "none", resp |-> NoResponse, logged |-> <<>>]

(* lines 86-133: from the request to the get_object call being awaited.      *)
StartTask(id, req, stalls) ==
    LET host      == HostOf(req.host)
        subdomain == Subdomain(host)
        path      == DecodedPath(req.path)
    IN  [id |-> id, req |-> req,
         host |-> host, subdomain |-> subdomain, path |-> path,
         key |-> BuildKey(subdomain, NormalizePath(path)),
         stalls |-> stalls, fetch |-> "pending",
         resp |-> NoResponse, logged |-> <<>>]

InitCommon ==
    /\ running = TRUE
    /\ pc = [c \in Conns |-> "new"]
    /\ sent = [c \in Conns |-> 0]
    /\ nread = [c \in Conns |-> 0]
    /\ task = [c \in Conns |-> NoTask]
    /\ written = [c \in Conns |-> <<>>]
    /\ connlog = [c \in Conns |-> ""]

(* Several clients: the first pipelines a few requests, the others send one. *)
InitServe ==
    /\ want = [c \in 1..MaxConns |->
                 [i \in 1..(IF c = 1 THEN MaxReqs ELSE 1) |->
                     SampleRequests[((c + i) % 3) + 1]]]
    /\ stored = [content_type |-> NoContentType, bytes |-> <<60, 104, 62>>]
    /\ InitCommon

(* Several clients, each sending one request.                                *)
InitStall ==
    /\ want = [c \in 1..MaxConns |-> <<SampleRequests[(c % 3) + 1]>>]
    /\ stored = [content_type |-> NoContentType, bytes |-> <<60, 104, 62>>]
    /\ InitCommon

(* One client sending one request drawn from the whole input space.          *)
InitResolve ==
    /\ want \in [{1} -> {<<r>> : r \in Requests}]
    /\ stored \in Objects
    /\ InitCommon

-----------------------------------------------------------------------------
(* main, lines 58-76.                                                        *)

(* The accept loop never waits for a connection's task: tokio::task::spawn   *)
(* returns at once (line 65).                                                *)
TaskRunnableInline(c) == running /\ \A d \in Conns : d < c => pc[d] \in {"new", "closed"}

TaskRunnable(c) == running

(* The loop is back at listener.accept() as soon as the task is spawned      *)
(* (lines 58-65, 76).                                                        *)
AcceptLoopReady == running

(* An error returned by serve_connection is printed and stays inside the     *)
(* spawned task (lines 66-74).                                               *)
ServeErrorEndsProcess(c) == FALSE

ServeErrorKeepsProcess(c) == TRUE

(* hyper's HTTP/1 dispatcher (serve_connection, lines 66-71) polls one       *)
(* service future at a time: the next request is read once the previous      *)
(* response has been written.                                                *)
CanReadNextAlways(c) == pc[c] \in {"idle", "fetching", "collecting", "writing"}

CanReadNext(c) == pc[c] = "idle"

(* line 59: listener.accept() yields a connection; lines 60-75 spawn it.     *)
Accept(c) ==
    /\ AcceptLoopReady
    /\ pc[c] = "new"
    /\ pc' = [pc EXCEPT ![c] = "idle"]
    /\ UNCHANGED <<want, stored, running, sent, nread, task, written, connlog>>

(* line 59: `?` on accept ends main, and with it the process and every task  *)
(* it spawned.                                                               *)
AcceptFail ==
    /\ running
    /\ running' = FALSE
    /\ pc' = [c \in Conns |-> "closed"]
    /\ task' = [c \in Conns |-> NoTask]
    /\ UNCHANGED <<want, stored, sent, nread, written, connlog>>

(* The client puts its next request on the wire.                             *)
ClientSend(c) ==
    /\ pc[c] # "closed"
    /\ sent[c] < Len(want[c])
    /\ sent' = [sent EXCEPT ![c] = @ + 1]
    /\ UNCHANGED <<want, stored, running, pc, nread, task, written, connlog>>

(* service_fn (line 69) calls handle_request, which runs to the await of     *)
(* get_object().send() (lines 86-133).                                       *)
HandleRequest(c) ==
    /\ TaskRunnable(c)
    /\ CanReadNext(c)
    /\ nread[c] < sent[c]
    /\ \E stalls \in BOOLEAN :
         task' = [task EXCEPT ![c] = StartTask(nread[c] + 1, want[c][nread[c] + 1], stalls)]
    /\ nread' = [nread EXCEPT ![c] = @ + 1]
    /\ pc' = [pc EXCEPT ![c] = "fetching"]
    /\ UNCHANGED <<want, stored, running, sent, written, connlog>>

(* line 135: send() returned Ok(resp); line 136 awaits the body.             *)
FetchOk(c) ==
    /\ TaskRunnable(c)
    /\ pc[c] = "fetching"
    /\ ~task[c].stalls
    /\ task' = [task EXCEPT ![c].fetch = "ok"]
    /\ pc' = [pc EXCEPT ![c] = "collecting"]
    /\ UNCHANGED <<want, stored, running, sent, nread, written, connlog>>

(* lines 143-149: send() returned Err(err).                                  *)
FetchErr(c) ==
    /\ TaskRunnable(c)
    /\ pc[c] = "fetching"
    /\ ~task[c].stalls
    /\ \E err \in S3Errors :
         task' = [task EXCEPT ![c].fetch = "err",
                              ![c].logged = ErrLine(err),
                              ![c].resp = ErrResponse(err)]
    /\ pc' = [pc EXCEPT ![c] = "writing"]
    /\ UNCHANGED <<want, stored, running, sent, nread, written, connlog>>

(* lines 136-141: the body was collected.                                    *)
BodyOk(c) ==
    /\ TaskRunnable(c)
    /\ pc[c] = "collecting"
    /\ task' = [task EXCEPT ![c].resp = OkResponse(stored.content_type, stored.bytes)]
    /\ pc' = [pc EXCEPT ![c] = "writing"]
    /\ UNCHANGED <<want, stored, running, sent, nread, written, connlog>>

(* The task of connection c ends with an error from serve_connection         *)
(* (lines 66-74).                                                            *)
ServeError(c) ==
    /\ pc' = [pc EXCEPT ![c] = "closed"]
    /\ connlog' = [connlog EXCEPT ![c] = ServeErrLine]
    /\ running' = (running /\ ServeErrorKeepsProcess(c))

(* line 136: collect() failed and `?` returns the error from handle_request; *)
(* the dispatcher fails the connection with it.                              *)
BodyErr(c) ==
    /\ TaskRunnable(c)
    /\ pc[c] = "collecting"
    /\ task' = [task EXCEPT ![c].fetch = "body_err"]
    /\ ServeError(c)
    /\ UNCHANGED <<want, stored, sent, nread, written>>

(* The dispatcher writes the response the handler returned.                  *)
WriteResponse(c) ==
    /\ TaskRunnable(c)
    /\ pc[c] = "writing"
    /\ written' = [written EXCEPT ![c] = Append(@, task[c].id)]
    /\ task' = [task EXCEPT ![c] = NoTask]
    /\ pc' = [pc EXCEPT ![c] = "idle"]
    /\ UNCHANGED <<want, stored, running, sent, nread, connlog>>

(* A transport error on the connection: malformed request, reset, protocol   *)
(* violation. A handler call in flight is dropped.                           *)
ConnError(c) ==
    /\ TaskRunnable(c)
    /\ pc[c] \in {"idle", "fetching", "collecting", "writing"}
    /\ task' = [task EXCEPT ![c] = NoTask]
    /\ ServeError(c)
    /\ UNCHANGED <<want, stored, sent, nread, written>>

(* The client closes an idle connection: serve_connection returns Ok.        *)
ClientClose(c) ==
    /\ TaskRunnable(c)
    /\ pc[c] = "idle"
    /\ nread[c] = sent[c]
    /\ pc' = [pc EXCEPT ![c] = "closed"]
    /\ UNCHANGED <<want, stored, running, sent, nread, task, written, connlog>>

Progress(c) ==
    \/ Accept(c)
    \/ HandleRequest(c)
    \/ FetchOk(c)
    \/ FetchErr(c)
    \/ BodyOk(c)
    \/ BodyErr(c)
    \/ WriteResponse(c)

Next ==
    \/ AcceptFail
    \/ \E c \in Conns : Accept(c)
    \/ \E c \in Conns : ClientSend(c)
    \/ \E c \in Conns : HandleRequest(c)
    \/ \E c \in Conns : FetchOk(c)
    \/ \E c \in Conns : FetchErr(c)
    \/ \E c \in Conns : BodyOk(c)
    \/ \E c \in Conns : BodyErr(c)
    \/ \E c \in Conns : WriteResponse(c)
    \/ \E c \in Conns : ConnError(c)
    \/ \E c \in Conns : ClientClose(c)

Spec == InitServe /\ [][Next]_vars

SpecResolve == InitResolve /\ [][Next]_vars

(* The runtime schedules every spawned task and the accept loop; a fetch     *)
(* that does not stall completes; a client that stays connected reads.       *)
Fairness == \A c \in 1..MaxConns : WF_vars(Progress(c))

SpecLive == InitStall /\ [][Next]_vars /\ Fairness

-----------------------------------------------------------------------------
(* Properties.                                                               *)

InFlight(c) == pc[c] \in {"fetching", "collecting", "writing"}

Stripped(c) == TrimStartMatches(task[c].req.path, Slash)

LeadingSlashes(s) ==
    CHOOSE k \in 0..Len(s) :
        /\ \A i \in 1..k : s[i] = Slash
        /\ (k < Len(s) => s[k + 1] # Slash)

FirstLabel(s) ==
    LET dots == {i \in 1..Len(s) : s[i] = Dot}
    IN  IF dots = {} THEN s
        ELSE SubSeq(s, 1, (CHOOSE i \in dots : \A j \in dots : i <= j) - 1)

RefTenant(h) == IF ~h.present THEN <<>> ELSE FirstLabel(h.bytes)

RefTenantText(h) ==
    IF ~h.present \/ (\E i \in 1..Len(h.bytes) : ~IsVisibleAscii(h.bytes[i]))
    THEN <<>>
    ELSE FirstLabel(h.bytes)

RefNormalize(p) ==
    CASE p = <<>> \/ p = IndexHtml -> IndexHtml
      [] p # <<>> /\ p # IndexHtml /\ p[Len(p)] = Slash -> p \o IndexHtml
      [] p # <<>> /\ p # IndexHtml /\ p[Len(p)] # Slash
           /\ (\A i \in 1..Len(p) : p[i] # Dot) -> p \o <<Slash>> \o IndexHtml
      [] OTHER -> p

RefKey(tenant, np) == IF tenant = <<>> THEN np ELSE tenant \o <<Slash>> \o np

HasMalformedEscape(s) ==
    \E i \in 1..Len(s) :
        /\ s[i] = Percent
        /\ ~(i + 2 <= Len(s) /\ IsHex(s[i + 1]) /\ IsHex(s[i + 2]))

RefDecode(s) == IF IsUtf8(PercentDecode(s)) THEN PercentDecode(s) ELSE <<>>

(* C1 as stated: the key requested from storage is the reference resolution  *)
(* of (host header, decoded path), the tenant being the first label of the   *)
(* host header whatever bytes the header holds.                              *)
C1_Original ==
    \A c \in Conns :
        InFlight(c) /\ IsUtf8(PercentDecode(Stripped(c))) =>
            task[c].key = RefKey(RefTenant(task[c].req.host), RefNormalize(task[c].path))

(* C1 amended: the key requested from storage is the reference resolution of *)
(* (host header, decoded path), where the tenant is empty when the header is *)
(* absent, is not visible-ASCII text, is empty or has an empty first label,  *)
(* and is the first '.'-separated label otherwise.                           *)
C1_KeyIsReference ==
    \A c \in Conns :
        InFlight(c) /\ IsUtf8(PercentDecode(Stripped(c))) =>
            task[c].key = RefKey(RefTenantText(task[c].req.host), RefNormalize(task[c].path))

C1_Witness ==
    \E c \in Conns :
        /\ InFlight(c)
        /\ task[c].subdomain # <<>>
        /\ task[c].path # <<>>
        /\ ~Contains(task[c].path, Dot)
        /\ ~EndsWith(task[c].path, Slash)
        /\ task[c].key = task[c].subdomain \o <<Slash>> \o task[c].path \o <<Slash>> \o IndexHtml

(* C2 as stated: handle_request never returns an error; every handled        *)
(* request gets a response with status 200 or 404, and a body that fails to  *)
(* read after a successful get_object yields 404 on a connection that stays  *)
(* open.                                                                     *)
C2_HandlerNeverFails ==
    \A c \in Conns :
        /\ (pc[c] = "writing" => task[c].resp.status \in {200, 404})
        /\ (task[c].fetch = "body_err" =>
                task[c].resp.status = 404 /\ pc[c] # "closed" /\ connlog[c] # ServeErrLine)

(* C3 as stated: exactly one leading '/' is stripped from the raw path       *)
(* before percent-decoding.                                                  *)
C3_Original ==
    \A c \in Conns :
        InFlight(c) => task[c].path = RefDecode(Tail(task[c].req.path))

(* C3 amended: every leading '/' is stripped from the raw path before        *)
(* percent-decoding, so the decoded path of "//about" is "about".            *)
C3_StripsAllLeadingSlashes ==
    \A c \in Conns :
        InFlight(c) =>
            task[c].path =
                RefDecode(Drop(task[c].req.path, LeadingSlashes(task[c].req.path)))

C3_Witness ==
    \E c \in Conns :
        /\ InFlight(c)
        /\ task[c].req.path = <<47, 47, 97, 98, 111, 117, 116>>
        /\ task[c].path = <<97, 98, 111, 117, 116>>
        /\ task[c].subdomain = <<>>
        /\ task[c].key = <<97, 98, 111, 117, 116, 47>> \o IndexHtml

(* C4 as stated: a '%' not followed by two hex digits, or decoded bytes that *)
(* are not UTF-8, replace the decoded path by the empty string, and the      *)
(* request resolves to index.html under its tenant.                          *)
C4_Original ==
    \A c \in Conns :
        InFlight(c) /\ (HasMalformedEscape(Stripped(c)) \/ ~IsUtf8(PercentDecode(Stripped(c)))) =>
            /\ task[c].path = <<>>
            /\ task[c].key = RefKey(task[c].subdomain, IndexHtml)

(* C4 amended: when the percent-decoded bytes are not valid UTF-8 the        *)
(* decoded path is the empty string and the request resolves to index.html   *)
(* under its tenant and is fetched as usual; a '%' not followed by two hex   *)
(* digits is no failure and stays in the decoded path as it is.              *)
C4_DecodeFailureIsEmptyPath ==
    \A c \in Conns :
        InFlight(c) =>
            /\ ~IsUtf8(PercentDecode(Stripped(c))) =>
                   /\ task[c].path = <<>>
                   /\ task[c].key = RefKey(task[c].subdomain, IndexHtml)
                   /\ task[c].fetch \in {"pending", "ok", "err"}
            /\ IsUtf8(PercentDecode(Stripped(c))) /\ HasMalformedEscape(Stripped(c)) =>
                   /\ task[c].path = PercentDecode(Stripped(c))
                   /\ Contains(task[c].path, Percent)

C4_Witness ==
    \E c \in Conns :
        /\ pc[c] = "writing"
        /\ ~IsUtf8(PercentDecode(Stripped(c)))
        /\ task[c].subdomain # <<>>
        /\ task[c].key = task[c].subdomain \o <<Slash>> \o IndexHtml
        /\ task[c].resp.status = 200

(* C5: a fetch that returns an error of any kind yields 404 with a non-empty *)
(* body, never 200, the error is logged, and the response is the same for    *)
(* every kind of error.                                                      *)
C5_FetchErrorIs404 ==
    \A c \in Conns :
        task[c].fetch = "err" =>
            /\ pc[c] = "writing"
            /\ task[c].resp.status = 404
            /\ task[c].resp.body # <<>>
            /\ task[c].resp = [status |-> 404, headers |-> NoHeaders, body |-> NotFoundBody]
            /\ \E err \in S3Errors : task[c].logged = ErrLine(err)

C5_Witness ==
    \E c \in Conns :
        /\ task[c].fetch = "err"
        /\ task[c].logged = ErrLine("DispatchFailure")
        /\ task[c].subdomain # <<>>
        /\ task[c].resp.status = 404

(* C6: a fetch that succeeds yields 200 with exactly the fetched bytes and a *)
(* content-type header that is the stored content type, or the empty string  *)
(* when storage gave none.                                                   *)
C6_SuccessIs200 ==
    \A c \in Conns :
        pc[c] = "writing" /\ task[c].fetch = "ok" =>
            /\ task[c].resp.status = 200
            /\ task[c].resp.body = stored.bytes
            /\ "content-type" \in DOMAIN task[c].resp.headers
            /\ task[c].resp.headers["content-type"] =
                   (IF stored.content_type.present THEN stored.content_type.value ELSE "")

C6_Witness ==
    \E c \in Conns :
        /\ pc[c] = "writing"
        /\ task[c].fetch = "ok"
        /\ ~stored.content_type.present
        /\ task[c].resp.headers["content-type"] = ""
        /\ task[c].resp.body = <<60, 104, 62>>

Stalled(a) == pc[a] = "fetching" /\ task[a].stalls

Waiting(b) ==
    /\ running
    /\ pc[b] # "closed"
    /\ sent[b] > Len(written[b])
    /\ ~Stalled(b)

(* C7: while the fetch of connection a never completes, a request sent on    *)
(* another connection b whose own fetch does not stall is answered (unless   *)
(* b's client breaks the connection or the process ends), and the accept     *)
(* loop keeps accepting.                                                     *)
C7_StallIsLocal ==
    /\ [](\A c \in 1..MaxConns : running /\ pc[c] = "new" => ENABLED Accept(c))
    /\ \A b \in 1..MaxConns :
           (Waiting(b) /\ \E a \in Conns \ {b} : Stalled(a)) ~> ~Waiting(b)

C7_Witness ==
    \E a, b \in Conns :
        /\ a # b
        /\ Stalled(a)
        /\ running
        /\ sent[b] >= 1
        /\ Len(written[b]) = sent[b]

HasWork(d) ==
    \/ pc[d] \in {"new", "collecting", "writing"}
    \/ pc[d] = "idle" /\ nread[d] < sent[d]
    \/ pc[d] = "fetching" /\ ~task[d].stalls

StillServed(d) == HasWork(d) => ENABLED Progress(d)

(* C8: a transport error on one connection is logged and ends only that      *)
(* connection's task: the step leaves the process running and every other    *)
(* connection as it was, and the others keep being served afterwards.        *)
C8_ErrorIsLocal ==
    /\ [][\A c \in Conns :
            connlog[c] # ServeErrLine /\ connlog'[c] = ServeErrLine =>
                /\ pc'[c] = "closed"
                /\ running' = running
                /\ \A d \in Conns \ {c} :
                       /\ pc'[d] = pc[d]
                       /\ task'[d] = task[d]
                       /\ nread'[d] = nread[d]
                       /\ written'[d] = written[d]
                       /\ connlog'[d] = connlog[d]]_vars
    /\ [](\A c, d \in Conns :
            c # d /\ connlog[c] = ServeErrLine /\ running => StillServed(d))

C8_Witness ==
    \E c, d \in Conns :
        /\ c # d
        /\ connlog[c] = ServeErrLine
        /\ pc[c] = "closed"
        /\ running
        /\ pc[d] = "writing"

(* C9: on one connection at most one handler call is in flight; request i+1  *)
(* is read only after the response to request i is written, and responses    *)
(* are written in receipt order.                                             *)
C9_OneAtATime ==
    \A c \in Conns :
        /\ nread[c] - Len(written[c]) \in {0, 1}
        /\ written[c] = [i \in 1..Len(written[c]) |-> i]
        /\ InFlight(c) => task[c].id = Len(written[c]) + 1

C9_Witness ==
    \E c, d \in Conns :
        /\ c # d
        /\ pc[c] = "fetching"
        /\ task[c].id = 2
        /\ written[c] = <<1>>
        /\ pc[d] = "fetching"
        /\ written[d] = <<>>

TenantKeys == {<<Subdomain(HostOf(r.host)), ResolveKey(r)>> : r \in Requests}

Tenants == {p[1] : p \in TenantKeys}

(* C10 as stated: two requests whose tenants differ never resolve to the     *)
(* same key, whatever their paths.                                           *)
C10_Original ==
    \A c \in Conns :
        InFlight(c) =>
            \A t \in Tenants :
                t # task[c].subdomain => <<t, task[c].key>> \notin TenantKeys

(* C10 amended: two requests whose tenants differ, are both non-empty and    *)
(* contain no '/', never resolve to the same key, whatever their paths; a    *)
(* request without tenant (or with a tenant holding '/') can resolve to a    *)
(* key under another tenant's prefix.                                        *)
C10_TenantsDisjoint ==
    \A c \in Conns :
        InFlight(c) =>
            \A t \in Tenants :
                /\ t # task[c].subdomain
                /\ t # <<>> /\ task[c].subdomain # <<>>
                /\ ~Contains(t, Slash) /\ ~Contains(task[c].subdomain, Slash)
                => <<t, task[c].key>> \notin TenantKeys

C10_Witness ==
    \E c \in Conns :
        /\ pc[c] = "fetching"
        /\ task[c].subdomain = <<97>>
        /\ task[c].path = <<97, 47>>
        /\ \E p \in TenantKeys : p[1] = <<97, 97>> /\ p[2] = <<97, 97, 47>> \o IndexHtml

=============================================================================
